---------------------------- MODULE Spec2Model ----------------------------
(***************************************************************************)
(* Model of backend/main.py of the museum anomaly detection backend: the   *)
(* rule-based evaluator detect_anomaly_rule_based, the threshold           *)
(* resolution of POST /anomaly/check, and the SQLite tables the handlers   *)
(* read and write.                                                         *)
(*                                                                         *)
(* Numbers.  Python floats are modelled as fixed-point integers with one   *)
(* decimal: the integer n stands for n/10 (240 is 24.0, 5 is 0.5).  A      *)
(* deviation |value - bound| / bound is a ratio and does not depend on the *)
(* scale; it is kept as an exact fraction <<num, den>> in lowest terms     *)
(* with den > 0, so the sign of a negative bound is kept.  Float rounding  *)
(* of the quotient is not modelled (rounding is monotone, so max and the   *)
(* clamp commute with it).                                                  *)
(*                                                                         *)
(* Optional values.  Python's None is the empty sequence <<>>, and a       *)
(* present value v is <<v>>.                                               *)
(*                                                                         *)
(* Tags.  A tag string such as "temperature_high" is modelled as the       *)
(* sequence of its "_"-separated fields <<"temperature", "high">>, so that *)
(* str.split('_') is the identity on the representation.                   *)
(***************************************************************************)
EXTENDS Integers, Sequences, FiniteSets, TLC

None == <<>>
Some(v) == <<v>>
IsNone(x) == x = <<>>
Val(x) == x[1]

Abs(x) == IF x < 0 THEN -x ELSE x

RECURSIVE GCD(_, _)
GCD(a, b) == IF b = 0 THEN a ELSE GCD(b, a % b)

(* n / d for d # 0, as Python's float division: the quotient keeps the sign *)
(* of the divisor.                                                          *)
Frac(n, d) ==
    LET s == IF d < 0 THEN -1 ELSE 1
        g == GCD(Abs(n), Abs(d))
    IN  <<(s * n) \div g, (s * d) \div g>>

FracLeq(a, b) == a[1] * b[2] <= b[1] * a[2]
FracMax(a, b) == IF FracLeq(a, b) THEN b ELSE a
FracMin(a, b) == IF FracLeq(a, b) THEN a ELSE b
Zero == <<0, 1>>
One == <<1, 1>>

(* The values a threshold mapping can hold under a quantity key: a nested  *)
(* {"min": .., "max": ..} dict (bounds may be None), or a bare float (the  *)
(* request's threshold_config is a Dict[str, float]).                      *)
Dict(mn, mx) == [kind |-> "dict", min |-> mn, max |-> mx]
Float(x) == [kind |-> "float", val |-> x]

(* Variant: a default whose vibration max is 1.0. *)
DEFAULT_THRESHOLDS_vibration_1 ==
    [temperature |-> Dict(Some(180), Some(240)),
     humidity    |-> Dict(Some(400), Some(600)),
     vibration   |-> Dict(Some(0), Some(10))]

DEFAULT_THRESHOLDS ==
    [temperature |-> Dict(Some(180), Some(240)),
     humidity    |-> Dict(Some(400), Some(600)),
     vibration   |-> Dict(Some(0), Some(5))]

(* dict.get(key, default) *)
get(d, key, default) == IF key \in DOMAIN d THEN d[key] ELSE default

SensorData(t, h, v) == [temperature |-> t, humidity |-> h, vibration |-> v]

(* --- detect_anomaly_rule_based ----------------------------------------- *)

Raise(e) == [exc |-> e, tags |-> <<>>, scores |-> <<>>]
Fired(tag, score) == [exc |-> "", tags |-> <<tag>>, scores |-> <<score>>]
Quiet == [exc |-> "", tags |-> <<>>, scores |-> <<>>]

(* Variant: the deviation is taken relative to the value, not the bound. *)
deviation_by_value(value, bound, tag) ==
    IF bound = 0 THEN Raise("ZeroDivisionError")
    ELSE Fired(tag, Frac(Abs(value - bound), value))

(* abs(value - bound) / bound, raising on a zero bound *)
deviation(value, bound, tag) ==
    IF bound = 0 THEN Raise("ZeroDivisionError")
    ELSE Fired(tag, Frac(Abs(value - bound), bound))

(* Variant: two independent "if" blocks instead of if / elif. *)
check_min_max_two_ifs(value, th, quantity) ==
    IF th.kind # "dict" THEN Raise("TypeError")
    ELSE IF IsNone(th.min) \/ IsNone(th.max) THEN Raise("TypeError")
    ELSE LET low == IF value < Val(th.min)
                    THEN deviation(value, Val(th.min), <<quantity, "low">>)
                    ELSE Quiet
             high == IF value > Val(th.max)
                     THEN deviation(value, Val(th.max), <<quantity, "high">>)
                     ELSE Quiet
         IN  IF low.exc # "" THEN low
             ELSE IF high.exc # "" THEN high
             ELSE [exc |-> "", tags |-> low.tags \o high.tags,
                   scores |-> low.scores \o high.scores]

(* Variant: the comparisons are <= and >=. *)
check_min_max_inclusive(value, th, quantity) ==
    IF th.kind # "dict" THEN Raise("TypeError")
    ELSE IF IsNone(th.min) THEN Raise("TypeError")
    ELSE IF value <= Val(th.min)
         THEN deviation(value, Val(th.min), <<quantity, "low">>)
    ELSE IF IsNone(th.max) THEN Raise("TypeError")
    ELSE IF value >= Val(th.max)
         THEN deviation(value, Val(th.max), <<quantity, "high">>)
    ELSE Quiet

(* One "if value < th[min] ... elif value > th[max] ..." block.  The       *)
(* conditions are evaluated in program order: subscripting a float raises, *)
(* comparing with None raises, and max is not looked at when low fired.    *)
check_min_max(value, th, quantity) ==
    IF th.kind # "dict" THEN Raise("TypeError")
    ELSE IF IsNone(th.min) THEN Raise("TypeError")
    ELSE IF value < Val(th.min)
         THEN deviation(value, Val(th.min), <<quantity, "low">>)
    ELSE IF IsNone(th.max) THEN Raise("TypeError")
    ELSE IF value > Val(th.max)
         THEN deviation(value, Val(th.max), <<quantity, "high">>)
    ELSE Quiet

(* Variant: the vibration block fires at the bound itself (>=). *)
check_max_geq(value, th, quantity) ==
    IF th.kind # "dict" THEN Raise("TypeError")
    ELSE IF IsNone(th.max) THEN Raise("TypeError")
    ELSE IF value >= Val(th.max)
         THEN deviation(value, Val(th.max), <<quantity, "high">>)
         ELSE Quiet

(* Variant: the vibration block has a low check like the other two. *)
check_max_with_low(value, th, quantity) == check_min_max(value, th, quantity)

(* The vibration block: only "if value > th[max]". *)
check_max(value, th, quantity) ==
    IF th.kind # "dict" THEN Raise("TypeError")
    ELSE IF IsNone(th.max) THEN Raise("TypeError")
    ELSE IF value > Val(th.max)
         THEN deviation(value, Val(th.max), <<quantity, "high">>)
    ELSE Quiet

RECURSIVE MaxOf(_)
MaxOf(s) == IF Len(s) = 1 THEN s[1] ELSE FracMax(s[1], MaxOf(Tail(s)))

(* Variant: the last "_"-separated field instead of the first. *)
split0_last(anomaly) == anomaly[Len(anomaly)]

(* anomaly.split('_')[0] *)
split0(anomaly) == anomaly[1]

(* Variant: is_anomaly is derived from the score instead of the tags. *)
verdict_flag_from_score(anomalies, scores) ==
    LET anomaly_score == IF scores # <<>> THEN MaxOf(scores) ELSE Zero
    IN  [raised |-> "",
         is_anomaly |-> ~FracLeq(anomaly_score, Zero),
         anomaly_score |-> FracMin(anomaly_score, One),
         anomalies |-> anomalies,
         affected_sensors |-> [i \in 1..Len(anomalies) |-> split0(anomalies[i])]]

(* The returned dict, from the tags and deviations that were recorded. *)
verdict(anomalies, scores) ==
    LET is_anomaly == Len(anomalies) > 0
        anomaly_score == IF scores # <<>> THEN MaxOf(scores) ELSE Zero
    IN  [raised |-> "",
         is_anomaly |-> is_anomaly,
         anomaly_score |-> FracMin(anomaly_score, One),
         anomalies |-> anomalies,
         affected_sensors |-> [i \in 1..Len(anomalies) |-> split0(anomalies[i])]]

(* thresholds_arg is Optional: None stands for the omitted argument.  The  *)
(* result is the returned dict, or [raised |-> <exception>] when a block   *)
(* raises (the first block that raises ends the call).                     *)
detect_anomaly_rule_based(data, thresholds_arg) ==
    LET thresholds == IF IsNone(thresholds_arg) THEN DEFAULT_THRESHOLDS
                      ELSE Val(thresholds_arg)
        t == check_min_max(data.temperature,
                 get(thresholds, "temperature", DEFAULT_THRESHOLDS.temperature),
                 "temperature")
        h == check_min_max(data.humidity,
                 get(thresholds, "humidity", DEFAULT_THRESHOLDS.humidity),
                 "humidity")
        v == check_max(data.vibration,
                 get(thresholds, "vibration", DEFAULT_THRESHOLDS.vibration),
                 "vibration")
    IN  IF t.exc # "" THEN [raised |-> t.exc]
        ELSE IF h.exc # "" THEN [raised |-> h.exc]
        ELSE IF v.exc # "" THEN [raised |-> v.exc]
        ELSE verdict(t.tags \o h.tags \o v.tags, t.scores \o h.scores \o v.scores)

(* --- generate_anomaly_explanation -------------------------------------- *)

(* A formatted string is kept as its literal pieces and the values put     *)
(* between them: f"a{x}b" is [lit |-> <<"a", "b">>, args |-> <<x>>].       *)
Str(s) == [lit |-> <<s>>, args |-> <<>>]
FStr(before, x, after) == [lit |-> <<before, after>>, args |-> <<x>>]

(* string concatenation a + b *)
Concat(a, b) ==
    LET n == Len(a.lit)
    IN  [lit  |-> SubSeq(a.lit, 1, n - 1) \o <<a.lit[n] \o b.lit[1]>> \o Tail(b.lit),
         args |-> a.args \o b.args]

(* sep.join(strs) *)
RECURSIVE Join(_, _)
Join(sep, strs) ==
    IF strs = <<>> THEN Str("")
    ELSE IF Len(strs) = 1 THEN strs[1]
    ELSE Concat(Concat(strs[1], Str(sep)), Join(sep, Tail(strs)))

temperature_low  == <<"temperature", "low">>
temperature_high == <<"temperature", "high">>
humidity_low     == <<"humidity", "low">>
humidity_high    == <<"humidity", "high">>
vibration_high   == <<"vibration", "high">>

(* explanations.get(anomaly, f"Anomaly detected: {anomaly}"); degC stands  *)
(* for the degree sign followed by C.                                      *)
explanation_for(anomaly, sensor_data) ==
    IF anomaly = temperature_high THEN
        FStr("Temperature (", sensor_data.temperature,
             "degC) is above safe levels. This could damage artifacts or promote mold growth.")
    ELSE IF anomaly = temperature_low THEN
        FStr("Temperature (", sensor_data.temperature,
             "degC) is below recommended levels. This could cause condensation or material stress.")
    ELSE IF anomaly = humidity_high THEN
        FStr("Humidity (", sensor_data.humidity,
             "%) is too high. This increases risk of mold, corrosion, and deterioration.")
    ELSE IF anomaly = humidity_low THEN
        FStr("Humidity (", sensor_data.humidity,
             "%) is too low. This can cause cracking and brittleness in organic materials.")
    ELSE IF anomaly = vibration_high THEN
        FStr("Vibration levels (", sensor_data.vibration,
             ") are excessive. This could indicate structural issues or nearby construction.")
    ELSE FStr("Anomaly detected: ", anomaly, "")

(* Variant: a single explanation gets the "Multiple issues" prefix too. *)
generate_anomaly_explanation_prefix_always(anomalies, sensor_data) ==
    IF anomalies = <<>> THEN Str("All sensor readings are within normal parameters.")
    ELSE LET selected_explanations ==
                 [i \in 1..Len(anomalies) |-> explanation_for(anomalies[i], sensor_data)]
         IN  Concat(Str("Multiple issues detected: "),
                    Join(" | ", selected_explanations))

(* Variant: without the "if not anomalies" early return. *)
generate_anomaly_explanation_no_empty_case(anomalies, sensor_data) ==
    LET selected_explanations ==
            [i \in 1..Len(anomalies) |-> explanation_for(anomalies[i], sensor_data)]
    IN  IF Len(selected_explanations) = 1 THEN selected_explanations[1]
        ELSE Concat(Str("Multiple issues detected: "),
                    Join(" | ", selected_explanations))

generate_anomaly_explanation(anomalies, sensor_data) ==
    IF anomalies = <<>> THEN Str("All sensor readings are within normal parameters.")
    ELSE LET selected_explanations ==
                 [i \in 1..Len(anomalies) |-> explanation_for(anomalies[i], sensor_data)]
         IN  IF Len(selected_explanations) = 1 THEN selected_explanations[1]
             ELSE Concat(Str("Multiple issues detected: "),
                         Join(" | ", selected_explanations))

(* ","-join of the tags, as stored in anomalies.anomaly_type.  A tag is    *)
(* kept as its fields, so the joined text is kept as the sequence of tags. *)
join_tags(anomalies) == anomalies

(* --- the database and the last call ------------------------------------ *)

VARIABLES
    exhibits,          \* table exhibits: id -> row, for the ids stored
    exhibits_seq,      \* sqlite_sequence of exhibits: the largest id ever used
    sensor_readings,   \* table sensor_readings, in insertion order
    anomalies,         \* table anomalies, in insertion order
    served,            \* number of requests handled so far
    call,              \* the last call handled: its inputs and its outcome
    now,               \* the clock behind CURRENT_TIMESTAMP and datetime.now()
    MOCK_SENSORS,      \* the configuration flag, read once from the environment
    esp32_sensor_manager,  \* connection_errors and last_successful_read
    monitoring         \* monitor requests that are awaiting the ESP32 read

vars == <<exhibits, exhibits_seq, sensor_readings, anomalies, served, call,
          now, MOCK_SENSORS, esp32_sensor_manager, monitoring>>
db == <<exhibits, exhibits_seq, sensor_readings, anomalies>>
env == <<now, MOCK_SENSORS, esp32_sensor_manager, monitoring>>

REAL_DATA_EXHIBIT_ID == 1

ExhibitRow(name, description, location, tmin, tmax, hmin, hmax, vmax) ==
    [name |-> name, description |-> description, location |-> location,
     temperature_min |-> tmin, temperature_max |-> tmax,
     humidity_min |-> hmin, humidity_max |-> hmax, vibration_max |-> vmax]

(* startup_event on an empty database: the three sample exhibits *)
sample_exhibits ==
    <<ExhibitRow("Ancient Vase (Real Sensors)",
                 "2000-year-old ceramic vase with real ESP32 monitoring", "Gallery A",
                 Some(200), Some(300), Some(400), Some(650), Some(1000)),
      ExhibitRow("Medieval Manuscript", "Illuminated manuscript from 13th century",
                 "Gallery B", Some(180), Some(210), Some(400), Some(500), Some(2)),
      ExhibitRow("Oil Painting", "Renaissance oil painting", "Gallery C",
                 Some(190), Some(230), Some(450), Some(600), Some(4))>>

(* ESP32SensorManager.__init__ *)
ESP32SensorManager ==
    [last_successful_read |-> None, connection_errors |-> 0,
     max_connection_errors |-> 5]

(* The tables after startup_event on an empty database, at time 0: the     *)
(* rows get created_at and updated_at from DEFAULT CURRENT_TIMESTAMP.      *)
InitDatabase ==
    /\ exhibits = [i \in 1..Len(sample_exhibits) |->
                      sample_exhibits[i] @@ [created_at |-> 0, updated_at |-> 0]]
    /\ exhibits_seq = Len(sample_exhibits)
    /\ sensor_readings = <<>>
    /\ anomalies = <<>>
    /\ now = 0
    /\ esp32_sensor_manager = ESP32SensorManager
    /\ monitoring = <<>>

Init ==
    /\ InitDatabase
    /\ MOCK_SENSORS \in BOOLEAN
    /\ served = 0
    /\ call = [name |-> "startup_event"]

(* --- the evaluator on its own ------------------------------------------ *)

EvalTemperatures == {-300, 0, 100, 180, 210, 240, 300}
EvalHumidities == {0, 300, 400, 500, 600, 800}
EvalVibrations == {-1, 0, 1, 5, 10}
EvalReadings ==
    {SensorData(t, h, v) : t \in EvalTemperatures, h \in EvalHumidities,
                           v \in EvalVibrations}

(* <<min, max>> pairs: the default, a zero min, a zero max, negative       *)
(* bounds, min > max, and a narrow band that readings overshoot by more    *)
(* than the bound itself.                                                  *)
EvalTemperatureBounds ==
    {<<180, 240>>, <<0, 240>>, <<-100, 0>>, <<-100, -20>>, <<240, 180>>, <<50, 100>>}
EvalHumidityBounds == {<<400, 600>>, <<0, 600>>, <<600, 400>>, <<300, 500>>}
EvalVibrationBounds == {<<0, 5>>, <<0, 0>>, <<0, 2>>, <<0, -5>>, <<5, 10>>}

EvalFullThresholds ==
    {[temperature |-> Dict(Some(t[1]), Some(t[2])),
      humidity    |-> Dict(Some(h[1]), Some(h[2])),
      vibration   |-> Dict(Some(v[1]), Some(v[2]))] :
        t \in EvalTemperatureBounds, h \in EvalHumidityBounds,
        v \in EvalVibrationBounds}

Quantities == {"temperature", "humidity", "vibration"}

Restrict(f, keys) == [k \in keys |-> f[k]]

(* The thresholds argument: None, a full mapping, or a mapping that lacks  *)
(* some quantity keys.                                                     *)
EvalThresholdArgs ==
    {None} \cup {Some(Restrict(th, keys)) : th \in EvalFullThresholds,
                                            keys \in SUBSET Quantities}

(* The call is drawn first and then made. *)
InitEval ==
    /\ InitDatabase
    /\ MOCK_SENSORS = TRUE
    /\ served = 0
    /\ call \in {[name |-> "pending", data |-> data, thresholds |-> thresholds] :
                    data \in EvalReadings, thresholds \in EvalThresholdArgs}

Evaluate ==
    /\ call.name = "pending"
    /\ call' = [name |-> "detect_anomaly_rule_based",
                data |-> call.data,
                thresholds |-> call.thresholds,
                result |-> detect_anomaly_rule_based(call.data, call.thresholds)]
    /\ UNCHANGED <<db, served, env>>

SpecEval == InitEval /\ [][Evaluate]_vars

(* --- the HTTP handlers -------------------------------------------------- *)

MaxRequests == 2

get_exhibit_by_id(exhibit_id) ==
    IF exhibit_id \in DOMAIN exhibits
    THEN Some([id |-> exhibit_id] @@ exhibits[exhibit_id])
    ELSE None

(* the thresholds dict the handlers build from an exhibit *)
exhibit_thresholds(exhibit) ==
    [temperature |-> Dict(exhibit.temperature_min, exhibit.temperature_max),
     humidity    |-> Dict(exhibit.humidity_min, exhibit.humidity_max),
     vibration   |-> Dict(Some(0), exhibit.vibration_max)]

(* Python truth value of an Optional dict / Optional int *)
truthy_dict(d) == ~IsNone(d) /\ DOMAIN Val(d) # {}
truthy_int(i) == ~IsNone(i) /\ Val(i) # 0

(* Variant: the request's threshold_config is looked at before the exhibit. *)
resolve_thresholds_request_first(exhibit, threshold_config) ==
    IF truthy_dict(threshold_config)
    THEN [selected |-> "request", thresholds |-> Val(threshold_config)]
    ELSE IF ~IsNone(exhibit)
    THEN [selected |-> "exhibit", thresholds |-> exhibit_thresholds(Val(exhibit))]
    ELSE [selected |-> "default", thresholds |-> DEFAULT_THRESHOLDS]

(* Threshold resolution of check_anomaly: exhibit is the Optional row found *)
(* for a truthy request.exhibit_id (None otherwise).  "selected" names the  *)
(* set that was picked; "thresholds" is what is passed to the evaluator.    *)
resolve_thresholds(exhibit, threshold_config) ==
    IF ~IsNone(exhibit)
    THEN [selected |-> "exhibit", thresholds |-> exhibit_thresholds(Val(exhibit))]
    ELSE IF truthy_dict(threshold_config)
    THEN [selected |-> "request", thresholds |-> Val(threshold_config)]
    ELSE [selected |-> "default", thresholds |-> DEFAULT_THRESHOLDS]

(* The mapping each quantity's bounds are read from in the evaluator:      *)
(* thresholds.get(quantity, DEFAULT_THRESHOLDS[quantity]).                 *)
thresholds_used(thresholds) ==
    [q \in Quantities |-> get(thresholds, q, DEFAULT_THRESHOLDS[q])]

(* the row save_sensor_reading inserts; timestamp is DEFAULT CURRENT_TIMESTAMP *)
reading_row(exhibit_id, sensor_data) ==
    [exhibit_id |-> exhibit_id, temperature |-> sensor_data.temperature,
     humidity |-> sensor_data.humidity, vibration |-> sensor_data.vibration,
     timestamp |-> now]

anomaly_row(exhibit_id, anomaly_type, severity, description, sensor_data) ==
    [exhibit_id |-> exhibit_id, anomaly_type |-> anomaly_type,
     severity |-> severity, description |-> description,
     sensor_data |-> sensor_data, timestamp |-> now, resolved |-> FALSE]

SpecReadings ==
    {SensorData(210, 500, 1), SensorData(250, 500, 3),
     SensorData(150, 300, 10), SensorData(300, 800, 10)}

(* request.threshold_config: absent, {}, or a Dict[str, float] *)
ThresholdConfigs ==
    {None, Some(<<>>),
     Some([temperature |-> Float(300)]),
     Some([vibration |-> Float(10)]),
     Some([temperature_max |-> Float(300)])}

RequestIds == {None} \cup {Some(i) : i \in 0..(exhibits_seq + 1)}

check_anomaly(request) ==
    LET exhibit == IF truthy_int(request.exhibit_id)
                   THEN get_exhibit_by_id(Val(request.exhibit_id))
                   ELSE None
        resolved == resolve_thresholds(exhibit, request.threshold_config)
        result == detect_anomaly_rule_based(request.sensor_data,
                                            Some(resolved.thresholds))
        explanation == generate_anomaly_explanation(result.anomalies,
                                                    request.sensor_data)
        saved_readings ==
            IF ~IsNone(exhibit)
            THEN Append(sensor_readings,
                        reading_row(Val(request.exhibit_id), request.sensor_data))
            ELSE sensor_readings
    IN  /\ served < MaxRequests
        /\ served' = served + 1
        /\ sensor_readings' = saved_readings
        /\ IF result.raised # ""
           THEN /\ anomalies' = anomalies
                /\ call' = [name |-> "check_anomaly", request |-> request,
                            selected |-> resolved.selected,
                            thresholds |-> resolved.thresholds,
                            response |-> [status |-> 500, detail |-> result.raised]]
           ELSE /\ anomalies' =
                      IF result.is_anomaly /\ truthy_int(request.exhibit_id)
                      THEN Append(anomalies,
                                  anomaly_row(Val(request.exhibit_id),
                                              join_tags(result.anomalies),
                                              result.anomaly_score, explanation,
                                              request.sensor_data))
                      ELSE anomalies
                /\ call' = [name |-> "check_anomaly", request |-> request,
                            selected |-> resolved.selected,
                            thresholds |-> resolved.thresholds,
                            response |->
                                [status |-> 200,
                                 is_anomaly |-> result.is_anomaly,
                                 anomaly_score |-> result.anomaly_score,
                                 explanation |-> explanation,
                                 affected_sensors |-> result.affected_sensors]]
        /\ UNCHANGED <<exhibits, exhibits_seq, env>>

CheckAnomaly ==
    \E sensor_data \in SpecReadings, exhibit_id \in RequestIds,
       threshold_config \in ThresholdConfigs :
        check_anomaly([sensor_data |-> sensor_data, exhibit_id |-> exhibit_id,
                       threshold_config |-> threshold_config])

(* POST /exhibits: the body's name, description, location and thresholds   *)
(* (an explicit null is stored as NULL, an omitted threshold has the       *)
(* default of the Exhibit model); the id is AUTOINCREMENT.                 *)
CreateBodies ==
    {ExhibitRow("Statue", "Marble statue", "Hall",
                Some(180), Some(240), Some(400), Some(600), Some(5)),
     ExhibitRow("Fresco", "Wall fresco", "Chapel",
                Some(0), Some(240), Some(400), Some(600), Some(0)),
     ExhibitRow("Tapestry", "Woven tapestry", "Gallery D",
                Some(180), Some(240), Some(400), None, Some(5))}

(* the body may carry an id of its own; the INSERT does not use it *)
CreateRequests ==
    {[id |-> id] @@ body : id \in {None, Some(1)}, body \in CreateBodies}

ExhibitColumns ==
    {"name", "description", "location", "temperature_min", "temperature_max",
     "humidity_min", "humidity_max", "vibration_max"}

(* Variant: the id of the body is used when the body has one. *)
create_exhibit_with_body_id(exhibit) ==
    LET exhibit_id == IF IsNone(exhibit.id) THEN exhibits_seq + 1 ELSE Val(exhibit.id)
        row == Restrict(exhibit, ExhibitColumns)
                   @@ [created_at |-> now, updated_at |-> now]
    IN  /\ served < MaxRequests
        /\ served' = served + 1
        /\ exhibits' = (exhibit_id :> row) @@ exhibits
        /\ exhibits_seq' = IF exhibit_id > exhibits_seq THEN exhibit_id ELSE exhibits_seq
        /\ call' = [name |-> "create_exhibit", request |-> exhibit,
                    response |-> [status |-> 200,
                                  exhibit |-> [id |-> exhibit_id] @@ exhibits'[exhibit_id]]]
        /\ UNCHANGED <<sensor_readings, anomalies, env>>

(* Variant: the id column without AUTOINCREMENT, so that the new id is one *)
(* more than the largest id stored.                                        *)
create_exhibit_max_rowid(exhibit) ==
    LET largest == IF DOMAIN exhibits = {} THEN 0
                   ELSE CHOOSE i \in DOMAIN exhibits : \A j \in DOMAIN exhibits : j <= i
        exhibit_id == largest + 1
        row == Restrict(exhibit, ExhibitColumns)
                   @@ [created_at |-> now, updated_at |-> now]
    IN  /\ served < MaxRequests
        /\ served' = served + 1
        /\ exhibits' = (exhibit_id :> row) @@ exhibits
        /\ exhibits_seq' = IF exhibit_id > exhibits_seq THEN exhibit_id ELSE exhibits_seq
        /\ call' = [name |-> "create_exhibit", request |-> exhibit,
                    response |-> [status |-> 200,
                                  exhibit |-> [id |-> exhibit_id] @@ exhibits'[exhibit_id]]]
        /\ UNCHANGED <<sensor_readings, anomalies, env>>

(* INSERT the eight columns, lastrowid is the new id, then SELECT the row  *)
(* back and return it.                                                     *)
create_exhibit(exhibit) ==
    LET exhibit_id == exhibits_seq + 1
        row == Restrict(exhibit, ExhibitColumns)
                   @@ [created_at |-> now, updated_at |-> now]
    IN  /\ served < MaxRequests
        /\ served' = served + 1
        /\ exhibits' = (exhibit_id :> row) @@ exhibits
        /\ exhibits_seq' = exhibit_id
        /\ call' = [name |-> "create_exhibit", request |-> exhibit,
                    response |-> [status |-> 200,
                                  exhibit |-> [id |-> exhibit_id] @@ exhibits'[exhibit_id]]]
        /\ UNCHANGED <<sensor_readings, anomalies, env>>

CreateExhibit == \E exhibit \in CreateRequests : create_exhibit(exhibit)

(* PUT /exhibits/{id}: updates maps the fields set in the body to their    *)
(* Optional values; only the non-null ones are written.                    *)
UpdateBodies ==
    {<<>>,
     [humidity_min |-> None],
     [name |-> Some("Renamed")],
     [temperature_max |-> Some(270)],
     [vibration_max |-> Some(0), humidity_min |-> None]}

(* Variant: the UPDATE has no "WHERE id = ?" and writes every row. *)
update_exhibit_all_rows(exhibit_id, updates) ==
    LET update_fields == {f \in DOMAIN updates : ~IsNone(updates[f])}
        found == exhibit_id \in DOMAIN exhibits
        updated(id) == [f \in DOMAIN exhibits[id] |->
                           IF f \in update_fields
                           THEN (IF f \in {"name", "description", "location"}
                                 THEN Val(updates[f]) ELSE updates[f])
                           ELSE IF f = "updated_at" THEN now
                           ELSE exhibits[id][f]]
    IN  /\ served < MaxRequests
        /\ served' = served + 1
        /\ exhibits' = IF found /\ update_fields # {}
                       THEN [id \in DOMAIN exhibits |-> updated(id)]
                       ELSE exhibits
        /\ call' = [name |-> "update_exhibit", exhibit_id |-> exhibit_id,
                    request |-> updates,
                    response |->
                        IF found
                        THEN [status |-> 200,
                              exhibit |-> [id |-> exhibit_id] @@ exhibits'[exhibit_id]]
                        ELSE [status |-> 404]]
        /\ UNCHANGED <<exhibits_seq, sensor_readings, anomalies, env>>

(* Variant: "if value:" instead of "if value is not None", so that a      *)
(* supplied 0.0 is not written.                                            *)
update_exhibit_if_truthy(exhibit_id, updates) ==
    LET update_fields == {f \in DOMAIN updates :
                             /\ ~IsNone(updates[f])
                             /\ f \in {"name", "description", "location"}
                                    \/ Val(updates[f]) # 0}
        found == exhibit_id \in DOMAIN exhibits
        updated == [f \in DOMAIN exhibits[exhibit_id] |->
                       IF f \in update_fields
                       THEN (IF f \in {"name", "description", "location"}
                             THEN Val(updates[f]) ELSE updates[f])
                       ELSE IF f = "updated_at" THEN now
                       ELSE exhibits[exhibit_id][f]]
    IN  /\ served < MaxRequests
        /\ served' = served + 1
        /\ exhibits' = IF found /\ update_fields # {}
                       THEN [exhibits EXCEPT ![exhibit_id] = updated]
                       ELSE exhibits
        /\ call' = [name |-> "update_exhibit", exhibit_id |-> exhibit_id,
                    request |-> updates,
                    response |->
                        IF found
                        THEN [status |-> 200,
                              exhibit |-> [id |-> exhibit_id] @@ exhibits'[exhibit_id]]
                        ELSE [status |-> 404]]
        /\ UNCHANGED <<exhibits_seq, sensor_readings, anomalies, env>>

(* Variant: the UPDATE is run even when the body has no non-null field,    *)
(* so that updated_at is always written.                                   *)
update_exhibit_always_writes(exhibit_id, updates) ==
    LET update_fields == {f \in DOMAIN updates : ~IsNone(updates[f])}
        found == exhibit_id \in DOMAIN exhibits
        updated == [f \in DOMAIN exhibits[exhibit_id] |->
                       IF f \in update_fields
                       THEN (IF f \in {"name", "description", "location"}
                             THEN Val(updates[f]) ELSE updates[f])
                       ELSE IF f = "updated_at" THEN now
                       ELSE exhibits[exhibit_id][f]]
    IN  /\ served < MaxRequests
        /\ served' = served + 1
        /\ exhibits' = IF found
                       THEN [exhibits EXCEPT ![exhibit_id] = updated]
                       ELSE exhibits
        /\ call' = [name |-> "update_exhibit", exhibit_id |-> exhibit_id,
                    request |-> updates,
                    response |->
                        IF found
                        THEN [status |-> 200,
                              exhibit |-> [id |-> exhibit_id] @@ exhibits'[exhibit_id]]
                        ELSE [status |-> 404]]
        /\ UNCHANGED <<exhibits_seq, sensor_readings, anomalies, env>>

(* UPDATE the non-null fields of the body and updated_at; with no such     *)
(* field nothing is written and the stored row is returned.                *)
update_exhibit(exhibit_id, updates) ==
    LET update_fields == {f \in DOMAIN updates : ~IsNone(updates[f])}
        found == exhibit_id \in DOMAIN exhibits
        updated == [f \in DOMAIN exhibits[exhibit_id] |->
                       IF f \in update_fields
                       THEN (IF f \in {"name", "description", "location"}
                             THEN Val(updates[f]) ELSE updates[f])
                       ELSE IF f = "updated_at" THEN now
                       ELSE exhibits[exhibit_id][f]]
    IN  /\ served < MaxRequests
        /\ served' = served + 1
        /\ exhibits' = IF found /\ update_fields # {}
                       THEN [exhibits EXCEPT ![exhibit_id] = updated]
                       ELSE exhibits
        /\ call' = [name |-> "update_exhibit", exhibit_id |-> exhibit_id,
                    request |-> updates,
                    response |->
                        IF found
                        THEN [status |-> 200,
                              exhibit |-> [id |-> exhibit_id] @@ exhibits'[exhibit_id]]
                        ELSE [status |-> 404]]
        /\ UNCHANGED <<exhibits_seq, sensor_readings, anomalies, env>>

UpdateExhibit ==
    \E exhibit_id \in 1..(exhibits_seq + 1), updates \in UpdateBodies :
        update_exhibit(exhibit_id, updates)

(* DELETE /exhibits/{id}: only the exhibits row goes; foreign keys are not *)
(* enforced (no PRAGMA foreign_keys), so readings and anomalies stay.      *)
delete_exhibit(exhibit_id) ==
    LET deleted == exhibit_id \in DOMAIN exhibits
    IN  /\ served < MaxRequests
        /\ served' = served + 1
        /\ exhibits' = [i \in DOMAIN exhibits \ {exhibit_id} |-> exhibits[i]]
        /\ call' = [name |-> "delete_exhibit", exhibit_id |-> exhibit_id,
                    response |-> [status |-> IF deleted THEN 200 ELSE 404]]
        /\ UNCHANGED <<exhibits_seq, sensor_readings, anomalies, env>>

DeleteExhibit ==
    \E exhibit_id \in 1..(exhibits_seq + 1) : delete_exhibit(exhibit_id)

(* GET /exhibits/{id} *)
get_exhibit(exhibit_id) ==
    LET exhibit == get_exhibit_by_id(exhibit_id)
    IN  /\ served < MaxRequests
        /\ served' = served + 1
        /\ call' = [name |-> "get_exhibit", exhibit_id |-> exhibit_id,
                    response |-> IF IsNone(exhibit) THEN [status |-> 404]
                                 ELSE [status |-> 200, exhibit |-> Val(exhibit)]]
        /\ UNCHANGED <<db, env>>

GetExhibit == \E exhibit_id \in 1..(exhibits_seq + 1) : get_exhibit(exhibit_id)

(* ORDER BY <column> DESC: the rows come in groups of equal <column>, the  *)
(* largest first.  SQLite does not specify the order within a group, so a  *)
(* group is kept as a set.                                                 *)
RECURSIVE order_by_desc(_, _, _)
order_by_desc(rows, column, largest) ==
    IF largest < 0 THEN <<>>
    ELSE LET group == {r \in rows : r[column] = largest}
         IN  (IF group = {} THEN <<>> ELSE <<group>>)
             \o order_by_desc(rows, column, largest - 1)

(* SELECT * FROM exhibits ORDER BY created_at DESC *)
get_all_exhibits ==
    order_by_desc({[id |-> i] @@ exhibits[i] : i \in DOMAIN exhibits},
                  "created_at", now)

(* GET /exhibits *)
get_exhibits ==
    /\ served < MaxRequests
    /\ served' = served + 1
    /\ call' = [name |-> "get_exhibits",
                response |-> [status |-> 200, exhibits |-> get_all_exhibits]]
    /\ UNCHANGED <<db, env>>

(* What generate_mock_sensor_data can return: a reading of the normal      *)
(* ranges (19.0..24.0, 40.0..65.0, 0.0..1.0) and one with the temperature  *)
(* raised by 5..10.                                                        *)
generate_mock_sensor_data ==
    {SensorData(210, 500, 1), SensorData(290, 650, 10)}

(* What the GET of http://<ip>:<port>/api/sensors can end in: status 200   *)
(* with a JSON body (one that lacks all three keys reads as 0.0), another  *)
(* status, or an exception (timeout, refused connection, bad JSON).        *)
Esp32Responses ==
    {[kind |-> "ok", data |-> SensorData(0, 0, 0)],
     [kind |-> "ok", data |-> SensorData(250, 500, 3)],
     [kind |-> "status"],
     [kind |-> "exception"]}

(* ESP32SensorManager.get_sensor_data, given how the GET ends: the         *)
(* manager's fields after the call and the Optional[SensorData] returned.  *)
ESP32SensorManager_get_sensor_data(response) ==
    IF response.kind = "ok"
    THEN [manager |-> [esp32_sensor_manager EXCEPT
                          !.connection_errors = 0,
                          !.last_successful_read = Some(now)],
          data |-> Some(response.data)]
    ELSE IF response.kind = "status"
    THEN [manager |-> esp32_sensor_manager, data |-> None]
    ELSE [manager |-> [esp32_sensor_manager EXCEPT !.connection_errors = @ + 1],
          data |-> None]

(* Variant: once max_connection_errors failures are counted, a failed read *)
(* is answered with 503 instead of mock data.                              *)
get_sensor_data_gives_up(response, mock) ==
    LET real == ESP32SensorManager_get_sensor_data(response)
        from_esp32 == ~MOCK_SENSORS /\ ~IsNone(real.data)
        gives_up == /\ ~MOCK_SENSORS
                    /\ IsNone(real.data)
                    /\ real.manager.connection_errors >=
                           real.manager.max_connection_errors
    IN  /\ served < MaxRequests
        /\ served' = served + 1
        /\ esp32_sensor_manager' =
               IF MOCK_SENSORS THEN esp32_sensor_manager ELSE real.manager
        /\ call' = [name |-> "get_sensor_data",
                    device |-> IF MOCK_SENSORS THEN "" ELSE response.kind,
                    read_from |-> IF from_esp32 THEN "esp32" ELSE "mock",
                    response |->
                        IF gives_up THEN [status |-> 503]
                        ELSE [status |-> 200,
                              sensor_data |-> IF from_esp32 THEN Val(real.data)
                                              ELSE mock]]
        /\ UNCHANGED <<db, now, MOCK_SENSORS, monitoring>>

(* GET /sensors/data.  The handler reads nothing before it awaits the      *)
(* device, so the whole of it is one step, taken when the read ends.       *)
(* "device" notes how the device read ended ("" when none was made).       *)
get_sensor_data(response, mock) ==
    LET real == ESP32SensorManager_get_sensor_data(response)
        from_esp32 == ~MOCK_SENSORS /\ ~IsNone(real.data)
    IN  /\ served < MaxRequests
        /\ served' = served + 1
        /\ esp32_sensor_manager' =
               IF MOCK_SENSORS THEN esp32_sensor_manager ELSE real.manager
        /\ call' = [name |-> "get_sensor_data",
                    device |-> IF MOCK_SENSORS THEN "" ELSE response.kind,
                    read_from |-> IF from_esp32 THEN "esp32" ELSE "mock",
                    response |-> [status |-> 200,
                                  sensor_data |-> IF from_esp32 THEN Val(real.data)
                                                  ELSE mock]]
        /\ UNCHANGED <<db, now, MOCK_SENSORS, monitoring>>

GetSensorData ==
    \E response \in Esp32Responses, mock \in generate_mock_sensor_data :
        get_sensor_data(response, mock)

(* Variant: save_anomaly is called without looking at is_anomaly. *)
monitor_evaluate_and_save_unconditional(exhibit_id, exhibit, sensor_data, read_from) ==
    LET thresholds == exhibit_thresholds(exhibit)
        anomaly_result == detect_anomaly_rule_based(sensor_data, Some(thresholds))
        explanation == generate_anomaly_explanation(anomaly_result.anomalies,
                                                    sensor_data)
    IN  IF anomaly_result.raised # ""
        THEN /\ call' = [name |-> "monitor_exhibit_realtime",
                         exhibit_id |-> exhibit_id, read_from |-> read_from,
                         response |-> [status |-> 500,
                                       detail |-> anomaly_result.raised]]
             /\ UNCHANGED <<sensor_readings, anomalies>>
        ELSE /\ sensor_readings' =
                    Append(sensor_readings, reading_row(exhibit_id, sensor_data))
             /\ anomalies' =
                    Append(anomalies,
                           anomaly_row(exhibit_id,
                                       join_tags(anomaly_result.anomalies),
                                       anomaly_result.anomaly_score,
                                       explanation, sensor_data))
             /\ call' = [name |-> "monitor_exhibit_realtime",
                         exhibit_id |-> exhibit_id, read_from |-> read_from,
                         response |->
                             [status |-> 200,
                              exhibit |-> exhibit,
                              sensor_data |-> sensor_data,
                              anomaly_status |->
                                  [is_anomaly |-> anomaly_result.is_anomaly,
                                   anomaly_score |-> anomaly_result.anomaly_score,
                                   explanation |-> explanation,
                                   affected_sensors |-> anomaly_result.affected_sensors],
                              thresholds |-> thresholds,
                              data_source |->
                                  IF ~MOCK_SENSORS /\ exhibit_id = REAL_DATA_EXHIBIT_ID
                                  THEN "esp32" ELSE "mock"]]

(* monitor_exhibit_realtime from the evaluation on: exhibit is the row     *)
(* that was loaded, sensor_data the reading that was obtained.  The        *)
(* evaluation comes before the two saves, so nothing is saved when it      *)
(* raises.                                                                 *)
monitor_evaluate_and_save(exhibit_id, exhibit, sensor_data, read_from) ==
    LET thresholds == exhibit_thresholds(exhibit)
        anomaly_result == detect_anomaly_rule_based(sensor_data, Some(thresholds))
        explanation == generate_anomaly_explanation(anomaly_result.anomalies,
                                                    sensor_data)
    IN  IF anomaly_result.raised # ""
        THEN /\ call' = [name |-> "monitor_exhibit_realtime",
                         exhibit_id |-> exhibit_id, read_from |-> read_from,
                         response |-> [status |-> 500,
                                       detail |-> anomaly_result.raised]]
             /\ UNCHANGED <<sensor_readings, anomalies>>
        ELSE /\ sensor_readings' =
                    Append(sensor_readings, reading_row(exhibit_id, sensor_data))
             /\ anomalies' =
                    IF anomaly_result.is_anomaly
                    THEN Append(anomalies,
                                anomaly_row(exhibit_id,
                                            join_tags(anomaly_result.anomalies),
                                            anomaly_result.anomaly_score,
                                            explanation, sensor_data))
                    ELSE anomalies
             /\ call' = [name |-> "monitor_exhibit_realtime",
                         exhibit_id |-> exhibit_id, read_from |-> read_from,
                         response |->
                             [status |-> 200,
                              exhibit |-> exhibit,
                              sensor_data |-> sensor_data,
                              anomaly_status |->
                                  [is_anomaly |-> anomaly_result.is_anomaly,
                                   anomaly_score |-> anomaly_result.anomaly_score,
                                   explanation |-> explanation,
                                   affected_sensors |-> anomaly_result.affected_sensors],
                              thresholds |-> thresholds,
                              data_source |->
                                  IF ~MOCK_SENSORS /\ exhibit_id = REAL_DATA_EXHIBIT_ID
                                  THEN "esp32" ELSE "mock"]]

(* GET /exhibits/{id}/monitor up to its first await: the exhibit is        *)
(* loaded; for the real-sensor exhibit outside mock mode the handler then  *)
(* awaits the device and other requests run; otherwise it runs to its end. *)
monitor_exhibit_realtime(exhibit_id, mock) ==
    LET exhibit == get_exhibit_by_id(exhibit_id)
    IN  /\ served < MaxRequests
        /\ served' = served + 1
        /\ IF IsNone(exhibit)
           THEN /\ call' = [name |-> "monitor_exhibit_realtime",
                            exhibit_id |-> exhibit_id, read_from |-> "",
                            response |-> [status |-> 404]]
                /\ UNCHANGED <<sensor_readings, anomalies, monitoring>>
           ELSE IF ~MOCK_SENSORS /\ exhibit_id = REAL_DATA_EXHIBIT_ID
           THEN /\ monitoring' = Append(monitoring,
                                        [exhibit_id |-> exhibit_id,
                                         exhibit |-> Val(exhibit)])
                /\ UNCHANGED <<sensor_readings, anomalies, call>>
           ELSE /\ monitor_evaluate_and_save(exhibit_id, Val(exhibit), mock, "mock")
                /\ UNCHANGED monitoring
        /\ UNCHANGED <<exhibits, exhibits_seq, now, MOCK_SENSORS,
                       esp32_sensor_manager>>

MonitorExhibit ==
    \E exhibit_id \in 1..(exhibits_seq + 1), mock \in generate_mock_sensor_data :
        monitor_exhibit_realtime(exhibit_id, mock)

(* The rest of an awaiting monitor request, once the device read has       *)
(* ended: mock data when the read gave nothing.                            *)
monitor_exhibit_realtime_resumed(i, response, mock) ==
    LET request == monitoring[i]
        real == ESP32SensorManager_get_sensor_data(response)
    IN  /\ esp32_sensor_manager' = real.manager
        /\ monitoring' = SubSeq(monitoring, 1, i - 1)
                             \o SubSeq(monitoring, i + 1, Len(monitoring))
        /\ IF ~IsNone(real.data)
           THEN monitor_evaluate_and_save(request.exhibit_id, request.exhibit,
                                          Val(real.data), "esp32")
           ELSE monitor_evaluate_and_save(request.exhibit_id, request.exhibit,
                                          mock, "mock")
        /\ UNCHANGED <<exhibits, exhibits_seq, served, now, MOCK_SENSORS>>

MonitorExhibitResumed ==
    \E i \in 1..Len(monitoring), response \in Esp32Responses,
       mock \in generate_mock_sensor_data :
        monitor_exhibit_realtime_resumed(i, response, mock)

(* GET /exhibits/{id}/history?limit=: the exhibit's readings, newest first *)
(* (timestamp, temperature, humidity, vibration).  The limit is either 0   *)
(* or the default 100, which is more than the rows there can be.           *)
HistoryLimits == {0, 100}

get_exhibit_history(exhibit_id, limit) ==
    LET exhibit == get_exhibit_by_id(exhibit_id)
        rows == {[temperature |-> sensor_readings[i].temperature,
                  humidity |-> sensor_readings[i].humidity,
                  vibration |-> sensor_readings[i].vibration,
                  timestamp |-> sensor_readings[i].timestamp, rowid |-> i] :
                    i \in {j \in 1..Len(sensor_readings) :
                              sensor_readings[j].exhibit_id = exhibit_id}}
        readings == IF limit = 0 THEN <<>> ELSE order_by_desc(rows, "timestamp", now)
    IN  /\ served < MaxRequests
        /\ served' = served + 1
        /\ call' = [name |-> "get_exhibit_history", exhibit_id |-> exhibit_id,
                    response |->
                        IF IsNone(exhibit) THEN [status |-> 404]
                        ELSE [status |-> 200, exhibit_id |-> exhibit_id,
                              readings |-> readings,
                              count |-> IF limit = 0 THEN 0 ELSE Cardinality(rows)]]
        /\ UNCHANGED <<db, env>>

GetExhibitHistory ==
    \E exhibit_id \in 1..(exhibits_seq + 1), limit \in HistoryLimits :
        get_exhibit_history(exhibit_id, limit)

(* The clock. *)
MaxTime == 1

Tick ==
    /\ now < MaxTime
    /\ now' = now + 1
    /\ UNCHANGED <<db, served, call, MOCK_SENSORS, esp32_sensor_manager, monitoring>>

Next ==
    \/ CheckAnomaly
    \/ CreateExhibit
    \/ UpdateExhibit
    \/ DeleteExhibit
    \/ GetExhibit
    \/ get_exhibits
    \/ GetSensorData
    \/ MonitorExhibit
    \/ MonitorExhibitResumed
    \/ GetExhibitHistory
    \/ Tick

Spec == Init /\ [][Next]_vars

(* ======================================================================= *)
(* Properties of detect_anomaly_rule_based, checked under SpecEval          *)
(* ======================================================================= *)

Evaluated == call.name = "detect_anomaly_rule_based"
Returned == Evaluated /\ call.result.raised = ""
Range(s) == {s[i] : i \in 1..Len(s)}

(* The bounds each quantity of the evaluated call is compared with. *)
Bounds ==
    thresholds_used(IF IsNone(call.thresholds) THEN DEFAULT_THRESHOLDS
                    ELSE Val(call.thresholds))
BoundValues ==
    {Val(Bounds.temperature.min), Val(Bounds.temperature.max),
     Val(Bounds.humidity.min), Val(Bounds.humidity.max),
     Val(Bounds.vibration.max)}

(* C1: whenever detect_anomaly_rule_based returns a verdict, is_anomaly is *)
(* true exactly when the anomalies list is non-empty, and anomaly_score is *)
(* 0.0 when the list is empty.                                             *)
C1_FlagIffTags ==
    Returned =>
        /\ call.result.is_anomaly <=> (call.result.anomalies # <<>>)
        /\ call.result.anomalies = <<>> => call.result.anomaly_score = Zero

(* a verdict with tags whose score is negative (a negative bound), flagged *)
C1_Witness ==
    /\ Returned
    /\ call.result.anomalies # <<>>
    /\ call.result.is_anomaly
    /\ call.result.anomaly_score[1] < 0

(* C2: for every reading and every threshold set with non-zero bounds, the *)
(* returned anomaly_score lies in [0, 1].                                  *)
C2_ScoreInUnitInterval ==
    (Returned /\ 0 \notin BoundValues) =>
        /\ FracLeq(Zero, call.result.anomaly_score)
        /\ FracLeq(call.result.anomaly_score, One)

(* C3: a reading strictly inside [min, max] for temperature and humidity   *)
(* and <= max for vibration gets the verdict "no anomaly": is_anomaly      *)
(* false, score 0.0, no tags, no affected sensors.                         *)
InsideBounds ==
    /\ Val(Bounds.temperature.min) < call.data.temperature
    /\ call.data.temperature < Val(Bounds.temperature.max)
    /\ Val(Bounds.humidity.min) < call.data.humidity
    /\ call.data.humidity < Val(Bounds.humidity.max)
    /\ call.data.vibration <= Val(Bounds.vibration.max)

C3_InsideIsNormal ==
    (Evaluated /\ InsideBounds) =>
        call.result = [raised |-> "", is_anomaly |-> FALSE, anomaly_score |-> Zero,
                       anomalies |-> <<>>, affected_sensors |-> <<>>]

(* inside, with the vibration exactly at a max of 0 *)
C3_Witness ==
    /\ Evaluated
    /\ InsideBounds
    /\ call.data.vibration = Val(Bounds.vibration.max)
    /\ Val(Bounds.vibration.max) = 0
    /\ ~call.result.is_anomaly

(* C4: with positive bounds, anomaly_score is min(1, max over the fired    *)
(* tags of |value - violated bound| / violated bound); with thresholds     *)
(* 18..24, 40..60, 0.5: (30, 50, 0.1) gives [temperature_high] and 0.25,   *)
(* (21, 80, 0.1) gives [humidity_high] and 20/60, (30, 80, 1.0) gives all  *)
(* three high tags and 1.0.                                                *)
ViolatedBound(tag) ==
    IF tag[2] = "low" THEN Val(Bounds[tag[1]].min) ELSE Val(Bounds[tag[1]].max)

(* score = |value - bound| / bound, for bound > 0 *)
IsDeviationOf(score, tag) ==
    score[1] * ViolatedBound(tag) = score[2] * Abs(call.data[tag[1]] - ViolatedBound(tag))

(* |value - bound| / bound >= 1, for bound > 0 *)
DeviationAtLeastOne(tag) ==
    Abs(call.data[tag[1]] - ViolatedBound(tag)) >= ViolatedBound(tag)

(* |value - bound| / bound <= score, for bound > 0 *)
DeviationAtMost(tag, score) ==
    Abs(call.data[tag[1]] - ViolatedBound(tag)) * score[2] <= score[1] * ViolatedBound(tag)

Thresholds_18_24_40_60_05 ==
    [temperature |-> Dict(Some(180), Some(240)),
     humidity    |-> Dict(Some(400), Some(600)),
     vibration   |-> Dict(Some(0), Some(5))]

C4_ScoreIsClampedMaxDeviation ==
    /\ (Returned /\ \A b \in BoundValues : b > 0) =>
          LET tags == Range(call.result.anomalies)
              score == call.result.anomaly_score
          IN  IF tags = {} THEN score = Zero
              ELSE IF \E tag \in tags : DeviationAtLeastOne(tag) THEN score = One
              ELSE /\ \E tag \in tags : IsDeviationOf(score, tag)
                   /\ \A tag \in tags : DeviationAtMost(tag, score)
    /\ (Evaluated /\ call.thresholds = Some(Thresholds_18_24_40_60_05)) =>
          /\ call.data = SensorData(300, 500, 1) =>
                /\ call.result.raised = ""
                /\ call.result.anomalies = <<temperature_high>>
                /\ call.result.anomaly_score = <<1, 4>>
                /\ call.result.is_anomaly
          /\ call.data = SensorData(210, 800, 1) =>
                /\ call.result.raised = ""
                /\ call.result.anomalies = <<humidity_high>>
                /\ call.result.anomaly_score = <<1, 3>>
          /\ call.data = SensorData(300, 800, 10) =>
                /\ call.result.raised = ""
                /\ call.result.anomalies =
                       <<temperature_high, humidity_high, vibration_high>>
                /\ call.result.anomaly_score = One

(* the third example has been evaluated *)
C4_Witness ==
    /\ Returned
    /\ call.thresholds = Some(Thresholds_18_24_40_60_05)
    /\ call.data = SensorData(300, 800, 10)
    /\ Len(call.result.anomalies) = 3

(* C9: at most one of the low / high tags fires per quantity, also when    *)
(* min > max.                                                              *)
C9_NotBothLowAndHigh ==
    Returned =>
        /\ ~(temperature_low \in Range(call.result.anomalies)
             /\ temperature_high \in Range(call.result.anomalies))
        /\ ~(humidity_low \in Range(call.result.anomalies)
             /\ humidity_high \in Range(call.result.anomalies))

(* min > max and the temperature lies between them: below min and above max *)
C9_Witness ==
    /\ Returned
    /\ call.data.temperature < Val(Bounds.temperature.min)
    /\ call.data.temperature > Val(Bounds.temperature.max)
    /\ temperature_low \in Range(call.result.anomalies)

(* C10: anomalies holds only the five known tags, temperature before       *)
(* humidity before vibration, and never a low-vibration tag, whatever the  *)
(* vibration value and the vibration min.                                  *)
QuantityRank(q) ==
    IF q = "temperature" THEN 1 ELSE IF q = "humidity" THEN 2 ELSE 3

C10_KnownTagsInOrder ==
    Returned =>
        LET tags == call.result.anomalies
        IN  /\ Range(tags) \subseteq {temperature_low, temperature_high,
                                       humidity_low, humidity_high, vibration_high}
            /\ \A i, j \in 1..Len(tags) :
                   i < j => QuantityRank(tags[i][1]) < QuantityRank(tags[j][1])
            /\ <<"vibration", "low">> \notin Range(tags)

(* a vibration below 0 and below the vibration min, next to two other tags *)
C10_Witness ==
    /\ Returned
    /\ call.data.vibration < 0
    /\ call.data.vibration < Val(Bounds.vibration.min)
    /\ call.result.anomalies = <<temperature_low, humidity_high>>

(* ======================================================================= *)
(* Properties of the threshold resolution of /anomaly/check, under Spec     *)
(* ======================================================================= *)

CheckCall == call.name = "check_anomaly"

(* check_anomaly leaves the exhibits table alone, so the table of the      *)
(* state that holds the call is the table the call read.                   *)
KnownExhibit ==
    /\ ~IsNone(call.request.exhibit_id)
    /\ Val(call.request.exhibit_id) \in DOMAIN exhibits

StoredThresholds(id) ==
    [temperature |-> [kind |-> "dict", min |-> exhibits[id].temperature_min,
                      max |-> exhibits[id].temperature_max],
     humidity    |-> [kind |-> "dict", min |-> exhibits[id].humidity_min,
                      max |-> exhibits[id].humidity_max],
     vibration   |-> [kind |-> "dict", min |-> <<0>>,
                      max |-> exhibits[id].vibration_max]]

(* the response is the one an evaluation with this outcome leads to *)
ResponseOf(result) ==
    IF result.raised # "" THEN call.response.status = 500
    ELSE /\ call.response.status = 200
         /\ call.response.is_anomaly = result.is_anomaly
         /\ call.response.anomaly_score = result.anomaly_score
         /\ call.response.affected_sensors = result.affected_sensors

(* C5: with the id of a stored exhibit and a request threshold_config, the *)
(* evaluation uses exactly the exhibit's stored bounds (vibration min 0),  *)
(* and the response is the one those bounds give, whatever the request's   *)
(* threshold_config is.                                                    *)
C5_ExhibitThresholdsWin ==
    (CheckCall /\ KnownExhibit /\ ~IsNone(call.request.threshold_config)) =>
        /\ call.selected = "exhibit"
        /\ call.thresholds = StoredThresholds(Val(call.request.exhibit_id))
        /\ ResponseOf(detect_anomaly_rule_based(
               call.request.sensor_data,
               Some(StoredThresholds(Val(call.request.exhibit_id)))))

(* exhibit 2 (18..21, 40..50, 0.2) with a non-empty request set: 25.0 and  *)
(* 0.3 are anomalous for the exhibit, 0.3 is not for the default           *)
C5_Witness ==
    /\ CheckCall
    /\ call.request.exhibit_id = Some(2)
    /\ KnownExhibit
    /\ truthy_dict(call.request.threshold_config)
    /\ call.request.sensor_data = SensorData(250, 500, 3)
    /\ call.response.status = 200
    /\ call.response.affected_sensors = <<"temperature", "vibration">>

(* C6: without a known exhibit and with a request threshold set, the       *)
(* request's set supplies the bounds of all three quantities and the       *)
(* evaluation completes with a verdict.                                    *)
C6_RequestThresholdsUsed ==
    (CheckCall /\ ~KnownExhibit /\ truthy_dict(call.request.threshold_config)) =>
        /\ call.response.status = 200
        /\ call.selected = "request"
        /\ \A q \in Quantities :
              /\ q \in DOMAIN Val(call.request.threshold_config)
              /\ thresholds_used(call.thresholds)[q] =
                     Val(call.request.threshold_config)[q]

(* C7: the bounds of all three quantities come from the one selected set,  *)
(* never from the default for a quantity the selected set lacks.           *)
C7_SelectedSetUsedWholesale ==
    CheckCall =>
        \A q \in Quantities :
            /\ q \in DOMAIN call.thresholds
            /\ thresholds_used(call.thresholds)[q] = call.thresholds[q]

(* C8: with no exhibit id or an id that matches no stored exhibit, and no  *)
(* request threshold set, the request succeeds and the reading is judged   *)
(* against 18..24, 40..60 and a vibration max of 0.5.                      *)
C8_DefaultFallback ==
    (CheckCall /\ ~KnownExhibit /\ IsNone(call.request.threshold_config)) =>
        LET d == call.request.sensor_data
            t == d.temperature < 180 \/ d.temperature > 240
            h == d.humidity < 400 \/ d.humidity > 600
            v == d.vibration > 5
        IN  /\ call.response.status = 200
            /\ call.selected = "default"
            /\ call.thresholds = Thresholds_18_24_40_60_05
            /\ call.response.is_anomaly <=> (t \/ h \/ v)
            /\ call.response.affected_sensors =
                   (IF t THEN <<"temperature">> ELSE <<>>)
                   \o (IF h THEN <<"humidity">> ELSE <<>>)
                   \o (IF v THEN <<"vibration">> ELSE <<>>)

(* the id of a deleted exhibit, no request set, an anomalous reading *)
C8_Witness ==
    /\ CheckCall
    /\ ~IsNone(call.request.exhibit_id)
    /\ Val(call.request.exhibit_id) \in 1..exhibits_seq
    /\ ~KnownExhibit
    /\ IsNone(call.request.threshold_config)
    /\ call.request.sensor_data = SensorData(300, 800, 10)
    /\ call.response.status = 200
    /\ call.response.is_anomaly

(* ======================================================================= *)
(* Two evaluations against the same thresholds, under SpecPair              *)
(* ======================================================================= *)

(* Pairs of readings that differ in exactly one quantity. *)
ReadingPairs ==
    {p \in EvalReadings \X EvalReadings :
        Cardinality({q \in Quantities : p[1][q] # p[2][q]}) = 1}

PairThresholdArgs == {None} \cup {Some(th) : th \in EvalFullThresholds}

InitPair ==
    /\ InitDatabase
    /\ MOCK_SENSORS = TRUE
    /\ served = 0
    /\ call \in {[name |-> "pending_pair", first |-> p[1], second |-> p[2],
                  thresholds |-> thresholds] :
                    p \in ReadingPairs, thresholds \in PairThresholdArgs}

EvaluatePair ==
    /\ call.name = "pending_pair"
    /\ call' = [name |-> "detect_anomaly_rule_based_pair",
                first |-> call.first,
                second |-> call.second,
                thresholds |-> call.thresholds,
                first_result |-> detect_anomaly_rule_based(call.first, call.thresholds),
                second_result |-> detect_anomaly_rule_based(call.second, call.thresholds)]
    /\ UNCHANGED <<db, served, env>>

SpecPair == InitPair /\ [][EvaluatePair]_vars

PairEvaluated == call.name = "detect_anomaly_rule_based_pair"
PairBounds ==
    thresholds_used(IF IsNone(call.thresholds) THEN DEFAULT_THRESHOLDS
                    ELSE Val(call.thresholds))

(* The quantity q of the first reading is out of range, and the second     *)
(* reading has moved it further beyond the bound the first one violates.   *)
FurtherOut(q) ==
    LET a == call.first[q]
        b == call.second[q]
        lo == Val(PairBounds[q].min)
        hi == Val(PairBounds[q].max)
    IN  IF q # "vibration" /\ a < lo THEN b < a
        ELSE a > hi /\ b > a

(* C11: moving one out-of-range quantity further beyond the bound it       *)
(* violates, with the thresholds and the other two quantities fixed, never *)
(* decreases anomaly_score.                                                *)
C11_ScoreMonotone ==
    (/\ PairEvaluated
     /\ call.first_result.raised = ""
     /\ call.second_result.raised = ""
     /\ \E q \in Quantities : FurtherOut(q)) =>
        FracLeq(call.first_result.anomaly_score, call.second_result.anomaly_score)


(* ======================================================================= *)
(* A violated bound that is exactly 0, under Spec                           *)
(* ======================================================================= *)

(* every quantity of the evaluated call has a {"min", "max"} dict with     *)
(* non-null bounds                                                         *)
CheckBoundsPresent ==
    \A q \in Quantities :
        LET th == thresholds_used(call.thresholds)[q]
        IN  th.kind = "dict" /\ ~IsNone(th.min) /\ ~IsNone(th.max)

(* the reading of the call is below a min of 0 (temperature, humidity), or *)
(* is above a max of 0 and is not below the min of that quantity           *)
CheckViolatesZeroBound ==
    \E q \in Quantities :
        LET th == thresholds_used(call.thresholds)[q]
            value == call.request.sensor_data[q]
        IN  \/ q # "vibration" /\ Val(th.min) = 0 /\ value < 0
            \/ /\ Val(th.max) = 0 /\ value > 0
               /\ q # "vibration" => ~(value < Val(th.min))

(* C12: when the reading violates a bound that is exactly 0, the deviation *)
(* is computed anyway and the request is answered with a verdict, not with *)
(* an error response.                                                      *)
C12_ZeroBoundNotAnError ==
    (CheckCall /\ CheckBoundsPresent /\ CheckViolatesZeroBound) =>
        call.response.status = 200


(* ======================================================================= *)
(* generate_anomaly_explanation on its own, under SpecExplain               *)
(* ======================================================================= *)

MaxTags == 3

(* the five tags the evaluator produces, and two it never produces *)
ExplainTags ==
    {temperature_low, temperature_high, humidity_low, humidity_high,
     vibration_high, <<"pressure", "high">>, <<"smoke">>}

RECURSIVE TagLists(_)
TagLists(n) ==
    IF n = 0 THEN {<<>>}
    ELSE TagLists(n - 1) \cup
         {Append(l, t) : l \in {m \in TagLists(n - 1) : Len(m) = n - 1},
                         t \in ExplainTags}

ExplainReadings ==
    {SensorData(210, 500, 1), SensorData(300, 800, 10), SensorData(-50, 0, 0)}

InitExplain ==
    /\ InitDatabase
    /\ MOCK_SENSORS = TRUE
    /\ served = 0
    /\ call \in {[name |-> "pending_explanation", anomalies |-> l,
                  sensor_data |-> d] :
                    l \in TagLists(MaxTags), d \in ExplainReadings}

Explain ==
    /\ call.name = "pending_explanation"
    /\ call' = [name |-> "generate_anomaly_explanation",
                anomalies |-> call.anomalies,
                sensor_data |-> call.sensor_data,
                result |-> generate_anomaly_explanation(call.anomalies,
                                                        call.sensor_data)]
    /\ UNCHANGED <<db, served, env>>

SpecExplain == InitExplain /\ [][Explain]_vars

Explained == call.name = "generate_anomaly_explanation"

KnownTags ==
    {<<"temperature", "high">>, <<"temperature", "low">>, <<"humidity", "high">>,
     <<"humidity", "low">>, <<"vibration", "high">>}

(* the sentence of the i-th tag of the call: text, value, text *)
Sentence(i) == explanation_for(call.anomalies[i], call.sensor_data)

(* C13: no tag gives the fixed sentence; one tag gives its sentence        *)
(* verbatim; two or more give "Multiple issues detected: " followed by the *)
(* tags' sentences in the order of the tags, with " | " between            *)
(* neighbours; a tag outside the five known ones has the sentence          *)
(* "Anomaly detected: <tag>".                                              *)
C13_ExplanationComposition ==
    Explained =>
        LET n == Len(call.anomalies)
            r == call.result
        IN  /\ n = 0 =>
                 r = [lit |-> <<"All sensor readings are within normal parameters.">>,
                      args |-> <<>>]
            /\ n = 1 => r = Sentence(1)
            /\ n >= 2 =>
                 /\ Len(r.lit) = n + 1
                 /\ Len(r.args) = n
                 /\ r.lit[1] = "Multiple issues detected: " \o Sentence(1).lit[1]
                 /\ \A i \in 1..n : r.args[i] = Sentence(i).args[1]
                 /\ \A i \in 1..(n - 1) :
                        r.lit[i + 1] = Sentence(i).lit[2] \o " | " \o Sentence(i + 1).lit[1]
                 /\ r.lit[n + 1] = Sentence(n).lit[2]
            /\ \A i \in 1..n :
                   call.anomalies[i] \notin KnownTags =>
                       Sentence(i) = [lit |-> <<"Anomaly detected: ", "">>,
                                      args |-> <<call.anomalies[i]>>]

(* a known tag, an unknown tag and a known tag, in an order the evaluator  *)
(* does not produce                                                        *)
C13_Witness ==
    /\ Explained
    /\ call.anomalies = <<vibration_high, <<"smoke">>, temperature_low>>
    /\ call.sensor_data = SensorData(300, 800, 10)
    /\ call.result.lit[1] = "Multiple issues detected: Vibration levels ("
    /\ call.result.lit[2] =
           ") are excessive. This could indicate structural issues or nearby construction. | Anomaly detected: "
    /\ call.result.lit[3] = " | Temperature ("
    /\ call.result.args = <<10, <<"smoke">>, 300>>

(* C14: with an empty tag list the result is the fixed string "All sensor  *)
(* readings are within normal parameters.", whatever the reading is.       *)
C14_EmptyTagsFixedString ==
    (Explained /\ call.anomalies = <<>>) =>
        /\ call.result.lit = <<"All sensor readings are within normal parameters.">>
        /\ call.result.args = <<>>

(* no tags with a reading that is far out of the default range *)
C14_Witness ==
    /\ Explained
    /\ call.anomalies = <<>>
    /\ call.sensor_data = SensorData(300, 800, 10)
    /\ call.result = Str("All sensor readings are within normal parameters.")


(* ======================================================================= *)
(* affected_sensors, under SpecEval                                         *)
(* ======================================================================= *)

(* the text of a tag before its first underscore *)
PrefixOf(tag) ==
    CASE tag \in {<<"temperature", "low">>, <<"temperature", "high">>} -> "temperature"
      [] tag \in {<<"humidity", "low">>, <<"humidity", "high">>} -> "humidity"
      [] tag = <<"vibration", "high">> -> "vibration"

(* C15: affected_sensors has the length of anomalies, its i-th entry is    *)
(* the quantity-name prefix of the i-th tag, and no entry occurs twice.    *)
C15_AffectedSensorsArePrefixes ==
    Returned =>
        LET tags == call.result.anomalies
            affected == call.result.affected_sensors
        IN  /\ Len(affected) = Len(tags)
            /\ \A i \in 1..Len(tags) : affected[i] = PrefixOf(tags[i])
            /\ \A i, j \in 1..Len(affected) : i # j => affected[i] # affected[j]

(* all three quantities out of range, two of them on the high side *)
C15_Witness ==
    /\ Returned
    /\ call.result.anomalies = <<temperature_high, humidity_low, vibration_high>>
    /\ call.result.affected_sensors = <<"temperature", "humidity", "vibration">>


(* ======================================================================= *)
(* What the handlers write, under Spec                                      *)
(* ======================================================================= *)

ThresholdFields ==
    {"temperature_min", "temperature_max", "humidity_min", "humidity_max",
     "vibration_max"}

ThresholdsOf(row) == [f \in ThresholdFields |-> row[f]]

(* the calls that evaluate or read; the evaluator and the explanation are  *)
(* called from within check_anomaly and monitor_exhibit_realtime           *)
ReadingCalls ==
    {"check_anomaly", "monitor_exhibit_realtime", "get_exhibit_history",
     "get_sensor_data"}

(* C17: in every step, the threshold values stored for an exhibit change   *)
(* only when the step is an update_exhibit on that exhibit's id, and a     *)
(* step by /anomaly/check, monitor, history or /sensors/data leaves the    *)
(* exhibits table as it was.  (DEFAULT_THRESHOLDS is never assigned in the *)
(* source and is a constant here.)                                         *)
C17_ThresholdsChangeOnlyByUpdate ==
    [][/\ \A id \in DOMAIN exhibits \cap DOMAIN exhibits' :
            ThresholdsOf(exhibits'[id]) # ThresholdsOf(exhibits[id]) =>
                /\ call'.name = "update_exhibit"
                /\ call'.exhibit_id = id
       /\ call'.name \in ReadingCalls =>
            /\ exhibits' = exhibits
            /\ exhibits_seq' = exhibits_seq]_vars

(* an update has changed the temperature_max of exhibit 2 from 21.0 to     *)
(* 27.0, and the other two sample exhibits have their thresholds           *)
C17_Witness ==
    /\ call.name = "update_exhibit"
    /\ call.exhibit_id = 2
    /\ call.response.status = 200
    /\ 2 \in DOMAIN exhibits
    /\ exhibits[2].temperature_max = <<270>>
    /\ \A id \in {1, 3} :
           /\ id \in DOMAIN exhibits
           /\ ThresholdsOf(exhibits[id]) = ThresholdsOf(sample_exhibits[id])


(* a step in which an /anomaly/check request is handled *)
CheckStep ==
    /\ call'.name = "check_anomaly"
    /\ served' = served + 1
    /\ monitoring' = monitoring

(* a step in which a monitor request is answered: at once, or when its     *)
(* await ends                                                              *)
MonitorAnswerStep ==
    /\ call'.name = "monitor_exhibit_realtime"
    /\ \/ served' = served + 1 /\ monitoring' = monitoring
       \/ Len(monitoring') < Len(monitoring)

(* the tables grew by exactly one reading of the exhibit, and by exactly   *)
(* one anomaly record with the tags and the score of the verdict if and    *)
(* only if the verdict is an anomaly                                       *)
PersistedOnce(id, data, result, is_anomaly, anomaly_score) ==
    /\ Len(sensor_readings') = Len(sensor_readings) + 1
    /\ SubSeq(sensor_readings', 1, Len(sensor_readings)) = sensor_readings
    /\ LET r == sensor_readings'[Len(sensor_readings')]
       IN  /\ r.exhibit_id = id
           /\ <<r.temperature, r.humidity, r.vibration>> =
                  <<data.temperature, data.humidity, data.vibration>>
    /\ IF is_anomaly
       THEN /\ Len(anomalies') = Len(anomalies) + 1
            /\ SubSeq(anomalies', 1, Len(anomalies)) = anomalies
            /\ LET a == anomalies'[Len(anomalies')]
               IN  /\ a.exhibit_id = id
                   /\ a.anomaly_type = result.anomalies
                   /\ a.anomaly_type # <<>>
                   /\ a.severity = anomaly_score
       ELSE anomalies' = anomalies

(* C18: a successful /anomaly/check with the id of a stored exhibit and a  *)
(* successful monitor request each add exactly one reading of that exhibit *)
(* and, if and only if is_anomaly, exactly one anomaly record whose type   *)
(* is the verdict's tags and whose severity is the returned score; an      *)
(* /anomaly/check without an exhibit id adds nothing.                      *)
C18_PersistsReadingAndAnomaly ==
    [][/\ (/\ CheckStep
           /\ call'.response.status = 200
           /\ ~IsNone(call'.request.exhibit_id)
           /\ Val(call'.request.exhibit_id) \in DOMAIN exhibits) =>
              PersistedOnce(Val(call'.request.exhibit_id),
                            call'.request.sensor_data,
                            detect_anomaly_rule_based(call'.request.sensor_data,
                                                      Some(call'.thresholds)),
                            call'.response.is_anomaly,
                            call'.response.anomaly_score)
       /\ (MonitorAnswerStep /\ call'.response.status = 200) =>
              PersistedOnce(call'.exhibit_id,
                            call'.response.sensor_data,
                            detect_anomaly_rule_based(call'.response.sensor_data,
                                                      Some(call'.response.thresholds)),
                            call'.response.anomaly_status.is_anomaly,
                            call'.response.anomaly_status.anomaly_score)
       /\ (CheckStep /\ IsNone(call'.request.exhibit_id)) =>
              /\ sensor_readings' = sensor_readings
              /\ anomalies' = anomalies]_vars

(* a normal monitor reading of exhibit 2 (one reading, no anomaly record), *)
(* then a check of 25.0 / 50.0 / 0.3 against exhibit 2: a second reading   *)
(* and the first anomaly record, with both tags and severity 1/2           *)
C18_Witness ==
    /\ CheckCall
    /\ call.request.exhibit_id = <<2>>
    /\ call.response.status = 200
    /\ call.response.is_anomaly
    /\ Len(sensor_readings) = 2
    /\ sensor_readings[1].exhibit_id = 2
    /\ sensor_readings[2].exhibit_id = 2
    /\ sensor_readings[2].temperature = 250
    /\ Len(anomalies) = 1
    /\ anomalies[1].exhibit_id = 2
    /\ anomalies[1].anomaly_type = <<temperature_high, vibration_high>>
    /\ anomalies[1].severity = <<1, 2>>


(* ======================================================================= *)
(* Creating and reading back an exhibit, under Spec                         *)
(* ======================================================================= *)

SuppliedFields == {"name", "description", "location"} \cup ThresholdFields

(* the exhibit e has the values of the body in every supplied field *)
AsSupplied(e, body) == \A f \in SuppliedFields : e[f] = body[f]

(* a step in which the named request is handled at once *)
RequestStep(name) ==
    /\ call'.name = name
    /\ served' = served + 1
    /\ monitoring' = monitoring

(* the exhibits of a GET /exhibits response body *)
Listed(response) == UNION {response.exhibits[i] : i \in 1..Len(response.exhibits)}

(* C19: POST /exhibits succeeds with an exhibit whose id no stored exhibit *)
(* has and whose fields are the supplied ones; a GET /exhibits/{id} or a   *)
(* GET /exhibits that is the next request handled returns that exhibit     *)
(* with exactly the supplied name, description, location and thresholds.   *)
C19_CreateThenGet ==
    [][/\ RequestStep("create_exhibit") =>
            /\ call'.response.status = 200
            /\ call'.response.exhibit.id \notin DOMAIN exhibits
            /\ AsSupplied(call'.response.exhibit, call'.request)
       /\ (/\ call.name = "create_exhibit"
           /\ RequestStep("get_exhibit")
           /\ call'.exhibit_id = call.response.exhibit.id) =>
            /\ call'.response.status = 200
            /\ call'.response.exhibit.id = call.response.exhibit.id
            /\ AsSupplied(call'.response.exhibit, call.request)
       /\ (call.name = "create_exhibit" /\ RequestStep("get_exhibits")) =>
            /\ call'.response.status = 200
            /\ Cardinality({e \in Listed(call'.response) :
                               e.id = call.response.exhibit.id}) = 1
            /\ \A e \in Listed(call'.response) :
                   e.id = call.response.exhibit.id => AsSupplied(e, call.request)]_vars

(* the Fresco (min temperature 0.0, vibration max 0.0) was created as      *)
(* exhibit 4 and then read back by GET /exhibits/4                         *)
C19_Witness ==
    /\ call.name = "get_exhibit"
    /\ call.exhibit_id = 4
    /\ call.response.status = 200
    /\ call.response.exhibit.id = 4
    /\ call.response.exhibit.name = "Fresco"
    /\ call.response.exhibit.temperature_min = <<0>>
    /\ call.response.exhibit.vibration_max = <<0>>
    /\ DOMAIN exhibits = 1..4


(* ======================================================================= *)
(* PUT /exhibits/{id}, under Spec                                           *)
(* ======================================================================= *)

(* the fields of an update body that carry a value *)
NonNullFields(body) == {f \in DOMAIN body : body[f] # <<>>}

(* the stored form of a supplied value: a text column holds the text, a    *)
(* threshold column holds an optional number                               *)
StoredForm(f, v) == IF f \in {"name", "description", "location"} THEN v[1] ELSE v

(* C20: a PUT on a stored exhibit answers 200; afterwards every supplied   *)
(* non-null field of that exhibit has the supplied value, every other      *)
(* field except updated_at is as before, every other exhibit is as before, *)
(* and the response is the exhibit as it is now stored.                    *)
C20_UpdateSetsExactlySupplied ==
    [][(RequestStep("update_exhibit") /\ call'.exhibit_id \in DOMAIN exhibits) =>
          LET id == call'.exhibit_id
              body == call'.request
          IN  /\ call'.response.status = 200
              /\ DOMAIN exhibits' = DOMAIN exhibits
              /\ \A f \in NonNullFields(body) :
                     /\ exhibits'[id][f] = StoredForm(f, body[f])
                     /\ call'.response.exhibit[f] = StoredForm(f, body[f])
              /\ \A f \in DOMAIN exhibits[id] \ (NonNullFields(body) \cup {"updated_at"}) :
                     exhibits'[id][f] = exhibits[id][f]
              /\ \A other \in DOMAIN exhibits \ {id} : exhibits'[other] = exhibits[other]
              /\ call'.response.exhibit.id = id
              /\ \A f \in DOMAIN exhibits'[id] :
                     call'.response.exhibit[f] = exhibits'[id][f]]_vars

(* exhibit 2 updated with vibration_max 0.0 and a null humidity_min: the   *)
(* zero is stored, humidity_min keeps its 40.0                             *)
C20_Witness ==
    /\ call.name = "update_exhibit"
    /\ call.exhibit_id = 2
    /\ call.request = [vibration_max |-> <<0>>, humidity_min |-> <<>>]
    /\ call.response.status = 200
    /\ 2 \in DOMAIN exhibits
    /\ exhibits[2].vibration_max = <<0>>
    /\ exhibits[2].humidity_min = <<400>>
    /\ call.response.exhibit.vibration_max = <<0>>


(* ======================================================================= *)
(* DELETE /exhibits/{id} and the requests after it, under Spec              *)
(* ======================================================================= *)

(* the ids that were given out and are no longer stored *)
DeletedIds == (1..exhibits_seq) \ DOMAIN exhibits

RequestsOnAnId ==
    {"get_exhibit", "update_exhibit", "delete_exhibit", "monitor_exhibit_realtime",
     "get_exhibit_history"}

(* C21: a DELETE that succeeds removes exactly that exhibit and leaves the *)
(* other exhibits as they were; an id that was deleted is never stored     *)
(* again, whatever is created later; a GET, PUT, DELETE, monitor or        *)
(* history request that arrives for a deleted id answers 404, and GET      *)
(* /exhibits lists no exhibit with a deleted id.                           *)
C21_DeletedStaysDeleted ==
    [][/\ (RequestStep("delete_exhibit") /\ call'.response.status = 200) =>
            /\ call'.exhibit_id \in DOMAIN exhibits
            /\ DOMAIN exhibits' = DOMAIN exhibits \ {call'.exhibit_id}
            /\ \A other \in DOMAIN exhibits' : exhibits'[other] = exhibits[other]
       /\ \A id \in DeletedIds : id \notin DOMAIN exhibits'
       /\ \A name \in RequestsOnAnId :
            (RequestStep(name) /\ call'.exhibit_id \in DeletedIds) =>
                call'.response.status = 404
       /\ RequestStep("get_exhibits") =>
            \A e \in Listed(call'.response) : e.id \notin DeletedIds]_vars

(* exhibit 2 was deleted, exhibits 1 and 3 are the sample exhibits, and a  *)
(* GET /exhibits/2 has been answered with 404                              *)
C21_Witness ==
    /\ call.name = "get_exhibit"
    /\ call.exhibit_id = 2
    /\ call.response.status = 404
    /\ DOMAIN exhibits = {1, 3}
    /\ exhibits_seq = 3
    /\ \A id \in {1, 3} : ThresholdsOf(exhibits[id]) = ThresholdsOf(sample_exhibits[id])


(* ======================================================================= *)
(* The ESP32 sensor manager on its own, and /sensors/data on top of it,     *)
(* under SpecEsp32                                                          *)
(* ======================================================================= *)

(* What the GET of http://<ip>:<port>/json can end in. *)
Esp32FullResponses == {"ok", "status", "exception"}

(* ESP32SensorManager.get_full_esp32_data: no field of the manager is      *)
(* assigned; the JSON body is returned on status 200 and None otherwise.   *)
ESP32SensorManager_get_full_esp32_data(response) ==
    [manager |-> esp32_sensor_manager,
     data |-> IF response = "ok" THEN Some("json") ELSE None]

(* ESP32SensorManager.is_connected: time is counted in seconds *)
is_connected ==
    IF IsNone(esp32_sensor_manager.last_successful_read) THEN FALSE
    ELSE now - Val(esp32_sensor_manager.last_successful_read) < 30

(* connection_errors has no upper limit in the code; the calls that raise  *)
(* are made while it is below MaxErrorCount.                               *)
MaxErrorCount == 7

CallGetSensorData ==
    \E response \in Esp32Responses :
        LET real == ESP32SensorManager_get_sensor_data(response)
        IN  /\ esp32_sensor_manager.connection_errors < MaxErrorCount
            /\ esp32_sensor_manager' = real.manager
            /\ call' = [name |-> "ESP32SensorManager.get_sensor_data",
                        device |-> response.kind, returned |-> real.data]
            /\ UNCHANGED <<db, served, now, MOCK_SENSORS, monitoring>>

CallGetFullEsp32Data ==
    \E response \in Esp32FullResponses :
        LET full == ESP32SensorManager_get_full_esp32_data(response)
        IN  /\ esp32_sensor_manager' = full.manager
            /\ call' = [name |-> "ESP32SensorManager.get_full_esp32_data",
                        device |-> response, returned |-> full.data]
            /\ UNCHANGED <<db, served, now, MOCK_SENSORS, monitoring>>

CallIsConnected ==
    /\ call' = [name |-> "ESP32SensorManager.is_connected", returned |-> is_connected]
    /\ UNCHANGED <<db, served, now, MOCK_SENSORS, esp32_sensor_manager, monitoring>>

(* The clock, in steps of 10 seconds up to MaxClock. *)
MaxClock == 30

Sleep ==
    /\ now + 10 <= MaxClock
    /\ now' = now + 10
    /\ UNCHANGED <<db, served, call, MOCK_SENSORS, esp32_sensor_manager, monitoring>>

NextEsp32 ==
    \/ CallGetSensorData
    \/ CallGetFullEsp32Data
    \/ CallIsConnected
    \/ GetSensorData
    \/ Sleep

SpecEsp32 == Init /\ [][NextEsp32]_vars

Esp32Data == {r.data : r \in {x \in Esp32Responses : x.kind = "ok"}}

(* C22: GET /sensors/data always answers 200 with a reading: mock data in  *)
(* mock mode; otherwise the device's reading when the device read          *)
(* succeeds, and mock data when the read raises or answers another status, *)
(* whatever connection_errors has reached.                                 *)
C22_SensorsDataNeverFails ==
    [][RequestStep("get_sensor_data") =>
          /\ call'.response.status = 200
          /\ MOCK_SENSORS =>
                /\ call'.device = ""
                /\ call'.response.sensor_data \in generate_mock_sensor_data
                /\ esp32_sensor_manager' = esp32_sensor_manager
          /\ (~MOCK_SENSORS /\ call'.device = "ok") =>
                /\ call'.response.sensor_data \in Esp32Data
                /\ call'.read_from = "esp32"
          /\ (~MOCK_SENSORS /\ call'.device \in {"status", "exception"}) =>
                /\ call'.response.sensor_data \in generate_mock_sensor_data
                /\ call'.read_from = "mock"
          /\ ~MOCK_SENSORS => call'.device \in {"ok", "status", "exception"}]_vars

(* a device read that raised after more than max_connection_errors         *)
(* failures, still answered with mock data                                 *)
C22_Witness ==
    /\ call.name = "get_sensor_data"
    /\ ~MOCK_SENSORS
    /\ call.device = "exception"
    /\ esp32_sensor_manager.connection_errors > esp32_sensor_manager.max_connection_errors
    /\ call.response.status = 200
    /\ call.response.sensor_data = SensorData(210, 500, 1)


(* ======================================================================= *)
(* The rows of sensor_readings and anomalies, under Spec                    *)
(* ======================================================================= *)

(* C23: every row of sensor_readings and every row of anomalies has the    *)
(* exhibit_id of an exhibit that is stored in the exhibits table.          *)
C23_RowsReferToStoredExhibits ==
    /\ \A i \in 1..Len(sensor_readings) :
           sensor_readings[i].exhibit_id \in DOMAIN exhibits
    /\ \A i \in 1..Len(anomalies) :
           anomalies[i].exhibit_id \in DOMAIN exhibits


(* C24: an /anomaly/check request that is answered with HTTP 500 leaves    *)
(* the sensor_readings and anomalies tables as they were before it.        *)
C24_FailedCheckWritesNothing ==
    [][(CheckStep /\ call'.response.status = 500) =>
          /\ sensor_readings' = sensor_readings
          /\ anomalies' = anomalies]_vars


(* C25: every stored exhibit has a value in each of its five threshold     *)
(* fields, so the threshold set built from it has no null bound.           *)
C25_StoredThresholdsNonNull ==
    \A id \in DOMAIN exhibits :
        /\ \A f \in ThresholdFields : exhibits[id][f] # <<>>
        /\ \A q \in Quantities :
               /\ exhibit_thresholds(exhibits[id])[q].min # <<>>
               /\ exhibit_thresholds(exhibits[id])[q].max # <<>>


(* ======================================================================= *)
(* GET /exhibits/{id}/monitor, under Spec                                   *)
(* ======================================================================= *)

MonitorAnswered ==
    call.name = "monitor_exhibit_realtime" /\ call.response.status = 200

(* C26: in a monitor response data_source is "esp32" exactly when the      *)
(* returned sensor_data was read from the ESP32 in that request, and       *)
(* "mock" when it is mock data.                                            *)
C26_DataSourceIsActualSource ==
    MonitorAnswered =>
        /\ call.response.data_source \in {"esp32", "mock"}
        /\ call.response.data_source = "esp32" <=> call.read_from = "esp32"
        /\ call.read_from = "mock" =>
               call.response.sensor_data \in generate_mock_sensor_data


(* the anomaly_status of a response is the one of this verdict *)
ResponseVerdictIs(status, result) ==
    /\ result.raised = ""
    /\ status.is_anomaly = result.is_anomaly
    /\ status.anomaly_score = result.anomaly_score
    /\ status.affected_sensors = result.affected_sensors

(* C27: when a monitor request is answered and its reading is persisted,   *)
(* the exhibit is stored, and the thresholds the request evaluated against *)
(* and reports are the ones stored for the exhibit at that moment,         *)
(* whatever PUT and DELETE requests ran while it awaited the device.       *)
C27_MonitorUsesCurrentThresholds ==
    [][(MonitorAnswerStep /\ call'.response.status = 200) =>
          /\ Len(sensor_readings') = Len(sensor_readings) + 1
          /\ call'.exhibit_id \in DOMAIN exhibits
          /\ call'.response.thresholds = StoredThresholds(call'.exhibit_id)
          /\ ResponseVerdictIs(
                 call'.response.anomaly_status,
                 detect_anomaly_rule_based(call'.response.sensor_data,
                                           Some(StoredThresholds(call'.exhibit_id))))]_vars


(* ======================================================================= *)
(* The counters of the ESP32 sensor manager, under SpecEsp32                *)
(* ======================================================================= *)

(* a step in which get_sensor_data is called, directly or by GET           *)
(* /sensors/data outside mock mode, and the device read ends as given      *)
SensorReadStep(ended) ==
    /\ call'.name \in {"ESP32SensorManager.get_sensor_data", "get_sensor_data"}
    /\ call'.device = ended
    /\ now' = now
    /\ \/ call' # call
       \/ esp32_sensor_manager' # esp32_sensor_manager
       \/ served' # served

(* C28: connection_errors is 0 after a successful get_sensor_data, one     *)
(* more after a get_sensor_data that raises, and unchanged by a non-200    *)
(* response and by get_full_esp32_data; last_successful_read changes only  *)
(* on a successful get_sensor_data and is_connected() is false while there *)
(* was none; connection_errors never exceeds max_connection_errors.        *)
C28_ManagerCounters ==
    /\ [][/\ SensorReadStep("ok") =>
               /\ esp32_sensor_manager'.connection_errors = 0
               /\ esp32_sensor_manager'.last_successful_read = <<now>>
          /\ SensorReadStep("exception") =>
               /\ esp32_sensor_manager'.connection_errors =
                      esp32_sensor_manager.connection_errors + 1
               /\ esp32_sensor_manager'.last_successful_read =
                      esp32_sensor_manager.last_successful_read
          /\ SensorReadStep("status") =>
               esp32_sensor_manager' = esp32_sensor_manager
          /\ call'.name = "ESP32SensorManager.get_full_esp32_data" =>
               esp32_sensor_manager' = esp32_sensor_manager
          /\ esp32_sensor_manager'.last_successful_read #
                 esp32_sensor_manager.last_successful_read =>
               SensorReadStep("ok")]_vars
    /\ [](/\ (/\ call.name = "ESP32SensorManager.is_connected"
              /\ esp32_sensor_manager.last_successful_read = <<>>) =>
                 call.returned = FALSE
          /\ esp32_sensor_manager.connection_errors <=
                 esp32_sensor_manager.max_connection_errors)


(* ======================================================================= *)
(* PUT /exhibits/{id} that has nothing to write, under Spec                 *)
(* ======================================================================= *)

(* C29: a PUT whose body is empty or holds only nulls writes nothing: it   *)
(* answers with the stored exhibit as it is (updated_at included) when the *)
(* id is stored, and with 404 when it is not; a PUT on an id that is not   *)
(* stored answers 404 and changes no exhibit, whatever its body is.        *)
C29_EmptyUpdateWritesNothing ==
    [][RequestStep("update_exhibit") =>
          LET id == call'.exhibit_id
              body == call'.request
          IN  /\ NonNullFields(body) = {} =>
                    /\ exhibits' = exhibits
                    /\ id \in DOMAIN exhibits =>
                           /\ call'.response.status = 200
                           /\ call'.response.exhibit.id = id
                           /\ \A f \in DOMAIN exhibits[id] :
                                  call'.response.exhibit[f] = exhibits[id][f]
              /\ id \notin DOMAIN exhibits =>
                    /\ call'.response.status = 404
                    /\ exhibits' = exhibits]_vars

(* at time 1, a PUT with only a null humidity_min on exhibit 2, which was  *)
(* last written at time 0: the answer still carries updated_at 0           *)
C29_Witness ==
    /\ call.name = "update_exhibit"
    /\ call.exhibit_id = 2
    /\ call.request = [humidity_min |-> <<>>]
    /\ call.response.status = 200
    /\ now = 1
    /\ 2 \in DOMAIN exhibits
    /\ exhibits[2].updated_at = 0
    /\ call.response.exhibit.updated_at = 0
    /\ call.response.exhibit.humidity_min = <<400>>


(* ======================================================================= *)
(* Readings at a bound, under SpecEval                                      *)
(* ======================================================================= *)

(* some tag of the quantity q is among the tags of the verdict *)
TagFired(q) ==
    \E i \in 1..Len(call.result.anomalies) : call.result.anomalies[i][1] = q

=============================================================================
